---- MODULE Spec2Model ----
(***************************************************************************)
(* The command line driver of Malheur (src/src/malheur.c): option parsing, *)
(* initialisation, the three task bodies and shutdown, as a state machine  *)
(* whose steps are the statements of the driver.  Calls into the other     *)
(* translation units (farray, proto, export, ftable, mconfig) are recorded *)
(* in `log` in program order.                                              *)
(***************************************************************************)
EXTENDS Integers, Sequences, FiniteSets, TLC

(* ---------------------------------------------------------------- bounds *)

\* Longest option list given on the command line.
MaxOpts == 3
\* Largest number of reports in the input (fa->len).
MaxLen == 2

(* ------------------------------------------------------------- constants *)

\* The null pointer.
NULL == "NULL"
\* config.h's default configuration file, the initial value of config_file.
CONFIG_FILE == "CONFIG_FILE"
\* sizeof(double) on the builds the tool targets.
SizeofDouble == 8

\* malheur_task_t
PROTOTYPE == "PROTOTYPE"
KERNEL == "KERNEL"
CLUSTER == "CLUSTER"

(* ------------------------------------------------- strings and strcasecmp *)

LowerCase == << "a", "b", "c", "d", "e", "f", "g", "h", "i", "j", "k", "l", "m",
                "n", "o", "p", "q", "r", "s", "t", "u", "v", "w", "x", "y", "z" >>
UpperCase == << "A", "B", "C", "D", "E", "F", "G", "H", "I", "J", "K", "L", "M",
                "N", "O", "P", "Q", "R", "S", "T", "U", "V", "W", "X", "Y", "Z" >>

\* The character code of a one-letter string; 0 is the terminating NUL.
Ord(c) ==
    IF \E i \in 1..Len(LowerCase) : LowerCase[i] = c
    THEN 96 + (CHOOSE i \in 1..Len(LowerCase) : LowerCase[i] = c)
    ELSE IF \E i \in 1..Len(UpperCase) : UpperCase[i] = c
    THEN 64 + (CHOOSE i \in 1..Len(UpperCase) : UpperCase[i] = c)
    ELSE 0

\* s[i] of a C string: the code of its i-th character, NUL past its end.
CharAt(s, i) == IF i <= Len(s) THEN Ord(s[i]) ELSE 0

tolower(n) == IF n \in 65..90 THEN n + 32 ELSE n

RECURSIVE strcasecmp_from(_, _, _)
strcasecmp_from(a, b, i) ==
    LET ca == tolower(CharAt(a, i))
        cb == tolower(CharAt(b, i))
    IN  IF ca # cb THEN ca - cb
        ELSE IF ca = 0 THEN 0
        ELSE strcasecmp_from(a, b, i + 1)

\* A comparison that does not fold case (strcmp).
strcmp_mutant(a, b) == IF a = b THEN 0 ELSE 1

strcasecmp(a, b) == strcasecmp_from(a, b, 1)

\* The three task names of lines 114-118.
str_prototype == << "p", "r", "o", "t", "o", "t", "y", "p", "e" >>
str_kernel == << "k", "e", "r", "n", "e", "l" >>
str_cluster == << "c", "l", "u", "s", "t", "e", "r" >>

(* ---------------------------------------------------------------- inputs *)

\* What getopt hands back for one option of the command line: the option
\* character and optarg.  "?" is an unknown option or a missing argument.
OptTokens ==
    { [ch |-> "v", optarg |-> NULL],
      [ch |-> "c", optarg |-> "my.cfg"],
      [ch |-> "r", optarg |-> "result.out"],
      [ch |-> "l", optarg |-> "load.pv"],
      [ch |-> "s", optarg |-> "save.pv"],
      [ch |-> "t", optarg |-> NULL],
      [ch |-> "V", optarg |-> NULL],
      [ch |-> "h", optarg |-> NULL],
      [ch |-> "?", optarg |-> NULL] }

RECURSIVE SeqsUpTo(_, _)
SeqsUpTo(S, n) ==
    IF n = 0 THEN { << >> }
    ELSE LET shorter == SeqsUpTo(S, n - 1)
         IN  shorter \cup { Append(s, x) : s \in shorter, x \in S }

\* Task arguments: the three names in several spellings, and other words.
TaskArgs ==
    { str_prototype, str_kernel, str_cluster,
      << "P", "r", "o", "t", "o", "T", "y", "p", "e" >>,
      << "K", "E", "R", "N", "E", "L" >>,
      << "c", "l", "u", "s", "t", "e", "R" >>,
      << "k", "e", "r", "n", "e", "l", "s" >>,
      << "p", "r", "o", "t", "o" >>,
      << >> }

\* The arguments left after the options: none, one, two or three of them.
Operands ==
    { << >>, << str_kernel >>, << str_cluster, "reports", "extra" >> }
        \cup { << t, "reports" >> : t \in TaskArgs }

(* ----------------------------------------------------------------- state *)

VARIABLES
    opts,          \* the options of argv, in order
    operands,      \* the arguments of argv after the options
    optind,        \* number of options getopt has consumed
    verbose,       \* int verbose
    config_file,   \* static char *config_file
    result_file,   \* static char *result_file
    input_file,    \* static char *input_file
    proto_file,    \* static char *proto_file
    task,          \* static malheur_task_t task
    lookup_table,  \* static int lookup_table
    cfg,           \* config_t cfg: "none", "init", "read", "checked", "invalid", "destroyed"
    fa,            \* farray_t *fa of the running task: [st, len]
    pr,            \* proto_t *pr: "none", "live", "destroyed"
    d,             \* double *d: "none", "null", "live", "freed"
    ftable,        \* the feature lookup table: "none", "live", "destroyed"
    ran,           \* the task bodies entered, in order
    log,           \* the calls made into the other translation units
    err,           \* what fatal() reported, when it was called
    pc             \* the statement the driver is at

vars == << opts, operands, optind, verbose, config_file, result_file, input_file,
           proto_file, task, lookup_table, cfg, fa, pr, d, ftable, ran, log, err, pc >>

statics == << verbose, config_file, result_file, input_file, proto_file, task,
              lookup_table >>
heap == << cfg, fa, pr, d, ftable >>
argv == << opts, operands >>

NoErr == [msg |-> "", args |-> << >>]

Init ==
    /\ opts \in SeqsUpTo(OptTokens, MaxOpts)
    /\ operands \in Operands
    /\ optind = 0
    /\ verbose = 0
    /\ config_file = CONFIG_FILE
    /\ result_file = NULL
    /\ input_file = NULL
    /\ proto_file = NULL
    /\ task = PROTOTYPE
    /\ lookup_table = FALSE
    /\ cfg = "none"
    /\ fa = [st |-> "none", len |-> 0]
    /\ pr = "none"
    /\ d = "none"
    /\ ftable = "none"
    /\ ran = << >>
    /\ log = << >>
    /\ err = NoErr
    /\ pc = "getopt"

(* --------------------------------------------------------------- helpers *)

\* A call into another translation unit, with the argument that names a file
\* or a size (NULL where the call has none).
Call(op, arg) == Append(log, [op |-> op, arg |-> arg])

\* fatal(): report the message and end the process with a failure status.
fatal(msg, args) ==
    /\ pc' = "fatal"
    /\ err' = [msg |-> msg, args |-> args]

\* exit(EXIT_SUCCESS)
exit_success ==
    /\ pc' = "exit_success"
    /\ UNCHANGED err

goto(l) ==
    /\ pc' = l
    /\ UNCHANGED err

(* ------------------------------------------ parse_options, lines 74-143 *)

\* One turn of the getopt loop (lines 77-105): getopt returns -1 when the
\* options are used up, and otherwise the next option with its argument.
ParseOptions_getopt ==
    /\ pc = "getopt"
    /\ IF optind >= Len(opts)
       THEN /\ goto("args")
            /\ UNCHANGED << optind, statics >>
       ELSE LET o == opts[optind + 1]
            IN  /\ optind' = optind + 1
                /\ verbose' = IF o.ch = "v" THEN verbose + 1 ELSE verbose
                /\ config_file' = IF o.ch = "c" THEN o.optarg ELSE config_file
                /\ result_file' = IF o.ch = "r" THEN o.optarg ELSE result_file
                /\ proto_file' = IF o.ch \in {"l", "s"} THEN o.optarg ELSE proto_file
                /\ lookup_table' = IF o.ch = "t" THEN TRUE ELSE lookup_table
                /\ IF o.ch \in {"V", "h", "?"} THEN exit_success ELSE goto("getopt")
                /\ UNCHANGED << input_file, task >>
    /\ UNCHANGED << argv, heap, ran, log >>

\* Lines 107-111: two arguments must be left after the options.
ParseOptions_argc ==
    /\ pc = "args"
    /\ IF Len(operands) # 2
       THEN fatal("<task> and <input> arguments are required", << >>)
       ELSE goto("task")
    /\ UNCHANGED << argv, optind, statics, heap, ran, log >>

\* The task a task argument names, or NULL (lines 114-121).
TaskOf(arg) ==
    IF strcasecmp(arg, str_prototype) = 0 THEN PROTOTYPE
    ELSE IF strcasecmp(arg, str_kernel) = 0 THEN KERNEL
    ELSE IF strcasecmp(arg, str_cluster) = 0 THEN CLUSTER
    ELSE NULL

\* Lines 113-121: the task argument.
ParseOptions_task ==
    /\ pc = "task"
    /\ IF TaskOf(operands[1]) # NULL
       THEN /\ task' = TaskOf(operands[1])
            /\ goto("input")
       ELSE /\ fatal("Unknown analysis task '%s' for Malheur", << operands[1] >>)
            /\ UNCHANGED task
    /\ UNCHANGED << argv, optind, verbose, config_file, result_file, input_file,
                    proto_file, lookup_table, heap, ran, log >>

\* Lines 123-126: the input argument must be readable.
ParseOptions_input ==
    /\ pc = "input"
    /\ input_file' = operands[2]
    /\ \E readable \in BOOLEAN :
          /\ log' = Call(IF readable THEN "access_ok" ELSE "access_failed", operands[2])
          /\ IF readable
             THEN goto("sanity")
             ELSE fatal("Could not access '%s'", << operands[2] >>)
    /\ UNCHANGED << argv, optind, verbose, config_file, result_file, proto_file,
                    task, lookup_table, heap, ran >>

\* A sanity check that lets the kernel task through without a result file.
SanityFails_mutant(t) == t = PROTOTYPE /\ proto_file = NULL /\ result_file = NULL

\* Lines 129-136: the outputs a task cannot run without are missing.
SanityFails(t) ==
    \/ t = PROTOTYPE /\ proto_file = NULL /\ result_file = NULL
    \/ t = KERNEL /\ result_file = NULL

\* Lines 128-142: the sanity checks of the selected task.
ParseOptions_sanity ==
    /\ pc = "sanity"
    /\ IF SanityFails(task)
       THEN /\ fatal(IF task = PROTOTYPE
                     THEN "No output specified. See options '-s' and/or '-r'"
                     ELSE "No output specified. See option '-r'", << >>)
            /\ UNCHANGED log
       ELSE /\ goto("config_read")
            /\ log' = IF task = KERNEL /\ proto_file # NULL
                      THEN Call("warning", "Prototypes will not be extracted in this task")
                      ELSE log
    /\ UNCHANGED << argv, optind, statics, heap, ran >>

(* ------------------------------------------- malheur_init, lines 208-227 *)

\* A start-up that does not test what config_read_file returns.
MalheurInit_config_read_mutant ==
    /\ pc = "config_read"
    /\ \E ok \in BOOLEAN :
          /\ log' = log \o << [op |-> "config_init", arg |-> NULL],
                              [op |-> IF ok THEN "config_read_file_ok"
                                      ELSE "config_read_file_failed",
                               arg |-> config_file] >>
          /\ cfg' = IF ok THEN "read" ELSE "invalid"
    /\ goto("config_check")
    /\ UNCHANGED << argv, optind, statics, fa, pr, d, ftable, ran >>

\* Lines 213-217: config_init, then config_read_file, which may fail.
MalheurInit_config_read ==
    /\ pc = "config_read"
    /\ \E ok \in BOOLEAN :
          /\ log' = log \o << [op |-> "config_init", arg |-> NULL],
                              [op |-> IF ok THEN "config_read_file_ok"
                                      ELSE "config_read_file_failed",
                               arg |-> config_file] >>
          /\ cfg' = IF ok THEN "read" ELSE "invalid"
          /\ IF ok
             THEN goto("config_check")
             ELSE fatal("Could not read configuration (%s in line %d)",
                        << "config_error_text", "config_error_line" >>)
    /\ UNCHANGED << argv, optind, statics, fa, pr, d, ftable, ran >>

\* config_check() of mconfig.c: a configuration that is not valid is a fatal
\* error reported by the check itself.
config_check(valid) ==
    IF valid
    THEN /\ cfg' = "checked"
         /\ goto("ftable_init")
    ELSE /\ cfg' = "invalid"
         /\ fatal("Invalid configuration", << >>)

\* Lines 219-222: check the configuration, print it when verbose.
MalheurInit_config_check ==
    /\ pc = "config_check"
    /\ \E valid \in BOOLEAN :
          /\ config_check(valid)
          /\ log' = IF valid /\ verbose > 1
                    THEN log \o << [op |-> "config_check", arg |-> NULL],
                                   [op |-> "config_print", arg |-> NULL] >>
                    ELSE Call("config_check", NULL)
    /\ UNCHANGED << argv, optind, statics, fa, pr, d, ftable, ran >>

\* A start-up that creates the lookup table whether or not it was enabled.
MalheurInit_ftable_mutant ==
    /\ pc = "ftable_init"
    /\ log' = Call("ftable_init", NULL)
    /\ ftable' = "live"
    /\ goto("dispatch")
    /\ UNCHANGED << argv, optind, statics, cfg, fa, pr, d, ran >>

\* Lines 224-226: the feature lookup table, when enabled.
MalheurInit_ftable ==
    /\ pc = "ftable_init"
    /\ IF lookup_table
       THEN /\ log' = Call("ftable_init", NULL)
            /\ ftable' = "live"
       ELSE UNCHANGED << log, ftable >>
    /\ goto("dispatch")
    /\ UNCHANGED << argv, optind, statics, cfg, fa, pr, d, ran >>

(* --------------------------------------------------- main, lines 247-266 *)

\* The task body main's switch calls for a task.
BodyOf(t) ==
    IF t = KERNEL THEN "malheur_kernel"
    ELSE IF t = PROTOTYPE THEN "malheur_prototype"
    ELSE "malheur_cluster"

\* The first statement of a task body.
EntryOf(t) ==
    IF t = KERNEL THEN "k_extract"
    ELSE IF t = PROTOTYPE THEN "p_extract"
    ELSE "c_extract"

\* Lines 251-262: perform the task.
Main_switch ==
    /\ pc = "dispatch"
    /\ ran' = Append(ran, BodyOf(task))
    /\ goto(EntryOf(task))
    /\ UNCHANGED << argv, optind, statics, heap, log >>

\* farray_extract() of farray.c: one feature vector per report of the input,
\* which may hold no report at all.
farray_extract_results == { [st |-> "live", len |-> n] : n \in 0..MaxLen }

\* A load that treats an input without reports as a fatal error.
LoadData_mutant(next) ==
    /\ \E r \in farray_extract_results :
          /\ fa' = r
          /\ IF r.len = 0 THEN fatal("No reports in input", << >>) ELSE goto(next)
    /\ log' = Call("farray_extract", input_file)
    /\ UNCHANGED << argv, optind, statics, cfg, pr, d, ftable, ran >>

\* Lines 151, 176, 187: load the data.
LoadData(next) ==
    /\ \E r \in farray_extract_results : fa' = r
    /\ log' = Call("farray_extract", input_file)
    /\ goto(next)
    /\ UNCHANGED << argv, optind, statics, cfg, pr, d, ftable, ran >>

(* -------------------------------------- malheur_prototype, lines 148-168 *)

\* Line 151.
Prototype_extract ==
    /\ pc = "p_extract"
    /\ LoadData("p_proto")

\* Lines 152-155: extract the prototypes, print them when verbose.
Prototype_proto ==
    /\ pc = "p_proto"
    /\ pr' = "live"
    /\ log' = IF verbose > 1
              THEN log \o << [op |-> "proto_extract", arg |-> NULL],
                             [op |-> "proto_print", arg |-> NULL] >>
              ELSE Call("proto_extract", NULL)
    /\ goto("p_export")
    /\ UNCHANGED << argv, optind, statics, cfg, fa, d, ftable, ran >>

\* Lines 157-159: export the prototypes when a result file is set.
Prototype_export ==
    /\ pc = "p_export"
    /\ log' = IF result_file # NULL THEN Call("export_proto", result_file) ELSE log
    /\ goto("p_save")
    /\ UNCHANGED << argv, optind, statics, heap, ran >>

\* Lines 161-163: save the prototype vectors when a prototype file is set.
Prototype_save ==
    /\ pc = "p_save"
    /\ log' = IF proto_file # NULL THEN Call("proto_save_file", proto_file) ELSE log
    /\ goto("p_destroy_pr")
    /\ UNCHANGED << argv, optind, statics, heap, ran >>

\* Line 166.
Prototype_proto_destroy ==
    /\ pc = "p_destroy_pr"
    /\ pr' = "destroyed"
    /\ log' = Call("proto_destroy", NULL)
    /\ goto("p_destroy_fa")
    /\ UNCHANGED << argv, optind, statics, cfg, fa, d, ftable, ran >>

\* Line 167.
Prototype_farray_destroy ==
    /\ pc = "p_destroy_fa"
    /\ fa' = [fa EXCEPT !.st = "destroyed"]
    /\ log' = Call("farray_destroy", NULL)
    /\ goto("exit_ftable")
    /\ UNCHANGED << argv, optind, statics, cfg, pr, d, ftable, ran >>

(* ---------------------------------------- malheur_cluster, lines 173-179 *)

\* Line 176.
Cluster_extract ==
    /\ pc = "c_extract"
    /\ LoadData("c_destroy")

\* Line 178.
Cluster_farray_destroy ==
    /\ pc = "c_destroy"
    /\ fa' = [fa EXCEPT !.st = "destroyed"]
    /\ log' = Call("farray_destroy", NULL)
    /\ goto("exit_ftable")
    /\ UNCHANGED << argv, optind, statics, cfg, pr, d, ftable, ran >>

(* ----------------------------------------- malheur_kernel, lines 184-201 *)

\* Line 187.
Kernel_extract ==
    /\ pc = "k_extract"
    /\ LoadData("k_malloc")

\* The size handed to malloc on line 190.
MatrixSize == fa.len * fa.len * SizeofDouble

\* An allocation whose result is used without being tested.
Kernel_malloc_mutant ==
    /\ pc = "k_malloc"
    /\ \E p \in {"null", "live"} : d' = p
    /\ log' = Call("malloc", ToString(MatrixSize))
    /\ goto("k_dot")
    /\ UNCHANGED << argv, optind, statics, cfg, fa, pr, ftable, ran >>

\* Lines 189-192: allocate the similarity matrix; malloc may return a null
\* pointer for any size, and for a size of zero either a null pointer or a
\* pointer that can be freed.
Kernel_malloc ==
    /\ pc = "k_malloc"
    /\ \E p \in {"null", "live"} :
          /\ d' = p
          /\ IF p = "null"
             THEN fatal("Could not allocate similarity matrix", << >>)
             ELSE goto("k_dot")
    /\ log' = Call("malloc", ToString(MatrixSize))
    /\ UNCHANGED << argv, optind, statics, cfg, fa, pr, ftable, ran >>

\* Line 193.
Kernel_dot ==
    /\ pc = "k_dot"
    /\ log' = Call("farray_dot", NULL)
    /\ goto("k_export")
    /\ UNCHANGED << argv, optind, statics, heap, ran >>

\* Lines 195-196.
Kernel_export ==
    /\ pc = "k_export"
    /\ log' = Call("export_kernel", result_file)
    /\ goto("k_free")
    /\ UNCHANGED << argv, optind, statics, heap, ran >>

\* Line 199.
Kernel_free ==
    /\ pc = "k_free"
    /\ d' = "freed"
    /\ log' = Call("free", NULL)
    /\ goto("k_destroy")
    /\ UNCHANGED << argv, optind, statics, cfg, fa, pr, ftable, ran >>

\* Line 200.
Kernel_farray_destroy ==
    /\ pc = "k_destroy"
    /\ fa' = [fa EXCEPT !.st = "destroyed"]
    /\ log' = Call("farray_destroy", NULL)
    /\ goto("exit_ftable")
    /\ UNCHANGED << argv, optind, statics, cfg, pr, d, ftable, ran >>

(* ------------------------------------------- malheur_exit, lines 232-239 *)

\* A shutdown that releases the configuration before the lookup table.
MalheurExit_order_mutant ==
    /\ pc = "exit_ftable"
    /\ cfg' = "destroyed"
    /\ ftable' = IF lookup_table THEN "destroyed" ELSE ftable
    /\ log' = IF lookup_table
              THEN log \o << [op |-> "config_destroy", arg |-> NULL],
                             [op |-> "ftable_destroy", arg |-> NULL] >>
              ELSE Call("config_destroy", NULL)
    /\ goto("return")
    /\ UNCHANGED << argv, optind, statics, fa, pr, d, ran >>

\* Lines 234-235.
MalheurExit_ftable ==
    /\ pc = "exit_ftable"
    /\ IF lookup_table
       THEN /\ log' = Call("ftable_destroy", NULL)
            /\ ftable' = "destroyed"
       ELSE UNCHANGED << log, ftable >>
    /\ goto("exit_config")
    /\ UNCHANGED << argv, optind, statics, cfg, fa, pr, d, ran >>

\* Lines 237-238.
MalheurExit_config ==
    /\ pc = "exit_config"
    /\ cfg' = "destroyed"
    /\ log' = Call("config_destroy", NULL)
    /\ goto("return")
    /\ UNCHANGED << argv, optind, statics, fa, pr, d, ftable, ran >>

\* Line 265: return EXIT_SUCCESS.
Main_return ==
    /\ pc = "return"
    /\ goto("done")
    /\ UNCHANGED << argv, optind, statics, heap, ran, log >>

(* --------------------------------------------------------- specification *)

Next ==
    \/ ParseOptions_getopt
    \/ ParseOptions_argc
    \/ ParseOptions_task
    \/ ParseOptions_input
    \/ ParseOptions_sanity
    \/ MalheurInit_config_read
    \/ MalheurInit_config_check
    \/ MalheurInit_ftable
    \/ Main_switch
    \/ Prototype_extract
    \/ Prototype_proto
    \/ Prototype_export
    \/ Prototype_save
    \/ Prototype_proto_destroy
    \/ Prototype_farray_destroy
    \/ Cluster_extract
    \/ Cluster_farray_destroy
    \/ Kernel_extract
    \/ Kernel_malloc
    \/ Kernel_dot
    \/ Kernel_export
    \/ Kernel_free
    \/ Kernel_farray_destroy
    \/ MalheurExit_ftable
    \/ MalheurExit_config
    \/ Main_return

Spec == Init /\ [][Next]_vars

(* ------------------------------------------------- vocabulary of claims *)

Called(op) == \E i \in DOMAIN log : log[i].op = op
Count(op) == Cardinality({ i \in DOMAIN log : log[i].op = op })
CalledWith(op, arg) == \E i \in DOMAIN log : log[i].op = op /\ log[i].arg = arg
Before(op1, op2) ==
    \A i, j \in DOMAIN log : log[i].op = op1 /\ log[j].op = op2 => i < j
Range(s) == { s[i] : i \in DOMAIN s }

\* The option was given on the command line.
GivenOpt(ch) == \E i \in DOMAIN opts : opts[i].ch = ch

\* A word with its capital letters replaced by small ones.
FoldCase(w) ==
    [ i \in DOMAIN w |->
        IF \E k \in DOMAIN UpperCase : UpperCase[k] = w[i]
        THEN LowerCase[CHOOSE k \in DOMAIN UpperCase : UpperCase[k] = w[i]]
        ELSE w[i] ]

\* The command line has a task and an input argument, and the task
\* argument is the given name in some spelling.
Names(name) == Len(operands) = 2 /\ FoldCase(operands[1]) = name

\* The run got past parse_options.
PastParsing == pc = "config_read" \/ Called("config_init")

ResultOps == { "farray_dot", "proto_extract" }
ExportOps == { "export_kernel", "export_proto", "proto_save_file" }
ComputeOps == { "farray_extract", "proto_extract", "farray_dot", "ftable_init" }

(* ---------------------------------------------------------------- claims *)

\* C1, as claimed: a prototype run gets past option parsing only if -r or
\* -s was given, and with neither it neither extracts prototypes nor ends
\* normally; a run that ends normally has called export_proto iff -r was
\* given and proto_save_file iff -s was given.
C1_PrototypeNeedsROrS ==
    Names(str_prototype) =>
        /\ PastParsing => GivenOpt("r") \/ GivenOpt("s")
        /\ ~GivenOpt("r") /\ ~GivenOpt("s") =>
              ~Called("proto_extract") /\ pc # "done"
        /\ pc = "done" =>
              /\ Called("export_proto") <=> GivenOpt("r")
              /\ Called("proto_save_file") <=> GivenOpt("s")

\* C2: a kernel run without -r never gets past option parsing and loads no
\* data, and once its input was found readable it is at the sanity check or
\* dead with the message about -r.  No kernel run extracts or saves
\* prototypes; a prototype file option only adds a warning; a kernel run
\* that ends normally has exported the matrix, once, to the -r file, after
\* computing it.
C2_KernelTask ==
    Names(str_kernel) =>
        /\ ~GivenOpt("r") =>
              /\ ~PastParsing /\ ~Called("farray_extract") /\ pc # "done"
              /\ Called("access_ok") =>
                    \/ pc = "sanity"
                    \/ pc = "fatal" /\ err.msg = "No output specified. See option '-r'"
        /\ ~Called("proto_extract") /\ ~Called("proto_save_file") /\ pr = "none"
        /\ PastParsing =>
              (Called("warning") <=> (GivenOpt("l") \/ GivenOpt("s")))
        /\ pc = "done" =>
              /\ Count("export_kernel") = 1
              /\ CalledWith("export_kernel", "result.out")
              /\ Before("farray_dot", "export_kernel")
              /\ Called("farray_dot")

\* C2's case: a kernel run given a prototype file as well ends normally,
\* with the warning and the export.
C2_Witness ==
    /\ pc = "done" /\ task = KERNEL
    /\ Called("warning") /\ Called("export_kernel")

\* A required output of the named task is missing from the command line.
MissingOutput ==
    \/ Names(str_prototype) /\ ~GivenOpt("r") /\ ~GivenOpt("l") /\ ~GivenOpt("s")
    \/ Names(str_kernel) /\ ~GivenOpt("r")

C4_LookupTable ==
    /\ Count("ftable_init") <= 1 /\ Count("ftable_destroy") <= 1
    /\ Called("ftable_init") => GivenOpt("t")
    /\ Called("ftable_destroy") => Called("ftable_init")
    /\ Before("ftable_init", "ftable_destroy")
    /\ Called("farray_extract") =>
          /\ Called("ftable_init") <=> GivenOpt("t")
          /\ Before("ftable_init", "farray_extract")
    /\ Before("farray_extract", "ftable_destroy")
    /\ Before("farray_destroy", "ftable_destroy")
    /\ Called("ftable_destroy") => Called("farray_destroy")
    /\ pc = "done" =>
          /\ Count("ftable_init") = (IF GivenOpt("t") THEN 1 ELSE 0)
          /\ Count("ftable_destroy") = (IF GivenOpt("t") THEN 1 ELSE 0)
    /\ ftable = (IF Called("ftable_destroy") THEN "destroyed"
                 ELSE IF Called("ftable_init") THEN "live" ELSE "none")

\* C4's case: a run given -t has ended normally, the table destroyed.
C4_Witness ==
    /\ pc = "done" /\ GivenOpt("t")
    /\ Count("ftable_init") = 1 /\ Count("ftable_destroy") = 1

\* C5, as claimed: a run that ends normally has, after farray_extract,
\* computed the result of its task and then handed it to an export or save
\* operation.
C5_ResultExported ==
    pc = "done" =>
        \E i, j, k \in DOMAIN log :
            /\ i < j /\ j < k
            /\ log[i].op = "farray_extract"
            /\ log[j].op \in ResultOps \cup {"cluster"}
            /\ log[k].op \in ExportOps \cup {"export_cluster"}

\* The input was loaded and holds no report.
EmptyInput == fa.st # "none" /\ fa.len = 0

C7_AllocFailureReportsSize ==
    d = "null" /\ MatrixSize > 0 =>
        /\ pc = "fatal"
        /\ ToString(MatrixSize) \in Range(err.args)
        /\ ~Called("farray_dot") /\ ~Called("export_kernel")

\* C7, amended: a failed allocation of the matrix is fatal and reported
\* with the fixed message "Could not allocate similarity matrix", which
\* carries no size; malloc is the last call of the run, so neither
\* farray_dot nor export_kernel is called.
C7_AllocFailureFatal ==
    d = "null" =>
        /\ pc = "fatal"
        /\ err = [msg |-> "Could not allocate similarity matrix", args |-> << >>]
        /\ log[Len(log)].op = "malloc"
        /\ ~Called("farray_dot") /\ ~Called("export_kernel")

\* C7's case: the allocation of a matrix for a collection that is not
\* empty has failed.
C7_Witness == d = "null" /\ pc = "fatal" /\ fa.len > 0

\* The task body the task argument names.
NamedBody ==
    IF Names(str_kernel) THEN "malheur_kernel"
    ELSE IF Names(str_prototype) THEN "malheur_prototype"
    ELSE IF Names(str_cluster) THEN "malheur_cluster"
    ELSE NULL

\* C8: once the options are parsed, a command line without exactly two
\* arguments is fatal, and so is a task argument that is none of the three
\* names in any spelling; a task argument that is one of them, in any
\* spelling, is never rejected; at most one task body is ever entered, it is
\* the one the argument names, and a run that ends normally has entered it
\* and loaded the data once.
C8_TaskSelection ==
    /\ Len(ran) <= 1
    /\ pc \notin {"getopt", "args", "exit_success"} /\ Len(operands) # 2 =>
          /\ pc = "fatal" /\ ran = << >>
          /\ err.msg = "<task> and <input> arguments are required"
    /\ pc \notin {"getopt", "args", "task", "exit_success"} /\ Len(operands) = 2
            /\ NamedBody = NULL =>
          /\ pc = "fatal" /\ ran = << >>
          /\ err.msg = "Unknown analysis task '%s' for Malheur"
    /\ pc = "fatal" /\ err.msg = "Unknown analysis task '%s' for Malheur" =>
          NamedBody = NULL
    /\ ran # << >> => ran = << NamedBody >>
    /\ pc = "done" => Len(ran) = 1 /\ Count("farray_extract") = 1

\* C8's case: a run whose task argument is KERNEL in capitals has run the
\* kernel task and ended normally.
C8_Witness ==
    /\ pc = "done" /\ ran = << "malheur_kernel" >>
    /\ operands[1] = << "K", "E", "R", "N", "E", "L" >>

\* C9, as claimed: a run given -l and not -s never saves prototype vectors
\* to the file of -l, and one that ends normally has loaded prototype
\* vectors from it.
C9_LoadOptionOnlyReads ==
    GivenOpt("l") /\ ~GivenOpt("s") =>
        /\ ~CalledWith("proto_save_file", "load.pv")
        /\ pc = "done" => CalledWith("proto_load_file", "load.pv")

\* The resources of a run: the call that acquires each, the calls that use
\* it, the call that releases it.
Resources ==
    { [acq |-> "farray_extract", rel |-> "farray_destroy",
       use |-> {"proto_extract", "proto_print", "export_proto", "malloc",
                "farray_dot", "export_kernel"}],
      [acq |-> "proto_extract", rel |-> "proto_destroy",
       use |-> {"proto_print", "export_proto", "proto_save_file"}],
      [acq |-> "malloc", rel |-> "free",
       use |-> {"farray_dot", "export_kernel"}],
      [acq |-> "ftable_init", rel |-> "ftable_destroy",
       use |-> {"farray_extract", "proto_extract", "farray_dot"}],
      [acq |-> "config_init", rel |-> "config_destroy",
       use |-> {"config_read_file_ok", "config_check", "config_print",
                "farray_extract", "proto_extract", "farray_dot"}] }

\* C10: no resource is released twice or before it was acquired, and no use
\* of it follows its release; the prototypes are destroyed before the
\* feature array they were extracted from; config_destroy is the last call
\* of a run; a run that ends normally has released, exactly once, each
\* resource it acquired.
C10_Resources ==
    /\ \A r \in Resources :
          /\ Count(r.rel) <= 1 /\ Count(r.acq) <= 1
          /\ Called(r.rel) => Called(r.acq)
          /\ Before(r.acq, r.rel)
          /\ \A u \in r.use : Before(u, r.rel)
          /\ pc = "done" => Count(r.rel) = Count(r.acq)
    /\ Before("proto_destroy", "farray_destroy")
    /\ Called("proto_extract") /\ Called("farray_destroy") => Called("proto_destroy")
    /\ Before("ftable_destroy", "config_destroy")
    /\ \A i \in DOMAIN log : log[i].op = "config_destroy" => i = Len(log)
    /\ pc = "done" =>
          /\ fa.st = "destroyed" /\ cfg = "destroyed"
          /\ pr \in {"none", "destroyed"}
          /\ d \in {"none", "freed"}
          /\ ftable \in {"none", "destroyed"}

\* C10's case: a prototype run with the lookup table, an export and a save
\* has ended normally.
C10_Witness ==
    /\ pc = "done" /\ task = PROTOTYPE /\ GivenOpt("t")
    /\ Called("export_proto") /\ Called("proto_save_file")
    /\ Called("proto_destroy") /\ Called("ftable_destroy")

====
